---- MODULE Spec2Model ----
(***************************************************************************)
(* A model of inlineplz/linters/__init__.py: the linter registry, the      *)
(* selection of the linters to run, the project scan, the install ledger   *)
(* and the run loop of LinterRunner.                                       *)
(*                                                                         *)
(* Python strings on which the code does string work (startswith, split,   *)
(* fnmatch, the `in` substring test) are sequences of tokens: a token is a *)
(* word or one of the punctuation marks ".", "/", "," and "*".  So         *)
(* "src/main.go" is <<"src", "/", "main", ".", "go">>.  Command lines are  *)
(* argv sequences of plain strings: the code only compares them whole.     *)
(***************************************************************************)
EXTENDS Integers, Sequences, FiniteSets, TLC

VARIABLES
    registry,                   \* LINTERS, the module-level registry (in iteration order)
    platform,                   \* sys.platform: "posix" stands for every value but "win32"
    tree,                       \* the files under os.getcwd(), each a sequence of path segments
    should_stop,                \* system.should_stop(), the cooperative stop signal
    install, autorun, ignore_paths, enabled_linters, disabled_linters,
    config_dir, trusted,        \* the arguments of the lint() call in progress
    previous_install_commands,  \* self.previous_install_commands (the install ledger)
    messages,                   \* message.Messages() of the run in progress
    pc,                         \* where run_linters stands
    todo,                       \* the linters the for loop has not reached yet
    linter,                     \* the linter the loop is processing
    idx,                        \* install_linter: index into config["install"]
    run_tasks,                  \* run_per_file: the tasks it created, in order
    awaiting,                   \* run_per_file: index of the task being awaited
    collected,                  \* run_per_file: its output list so far
    output,                     \* run_linters: the local variable output
    tasks,                      \* every run_command task of the event loop still in flight
    result,                     \* what the last lint() returned
    runs,                       \* lint() calls made on this LinterRunner
    calls,                      \* history: the command lines passed to run_command in this run
    hist                        \* history: per-run bookkeeping the properties read

vars == <<registry, platform, tree, should_stop, install, autorun, ignore_paths,
          enabled_linters, disabled_linters, config_dir, trusted,
          previous_install_commands,
          messages, pc, todo, linter, idx, run_tasks, awaiting, collected,
          output, tasks, result, runs, calls, hist>>

----------------------------------------------------------------------------
(* Python values *)

\* None, and the two shapes an argument can have: a list and a str.
None == [kind |-> "None"]
List(items) == [kind |-> "list", items |-> items]
PyStr(chars) == [kind |-> "str", chars |-> chars]

\* the path of a directory given as config_dir, with the files the directory
\* holds (each a sequence of path segments below it)
Dir(path, files) == [kind |-> "dir", path |-> path, files |-> files]

Range(s) == {s[i] : i \in DOMAIN s}

\* str.startswith
StartsWith(s, prefix) ==
    Len(prefix) <= Len(s) /\ SubSeq(s, 1, Len(prefix)) = prefix

\* the substring test `sub in s` on two str
IsSubstring(sub, s) ==
    \E k \in 0..(Len(s) - Len(sub)) : SubSeq(s, k + 1, k + Len(sub)) = sub

\* str.split(sep): the list of the pieces between the separators
RECURSIVE SplitFrom(_, _, _)
SplitFrom(s, sep, piece) ==
    IF s = <<>> THEN <<piece>>
    ELSE IF Head(s) = sep THEN <<piece>> \o SplitFrom(Tail(s), sep, <<>>)
    ELSE SplitFrom(Tail(s), sep, Append(piece, Head(s)))

Split(s, sep) == SplitFrom(s, sep, <<>>)

\* fnmatch.fnmatch(name, pat) on a POSIX platform: "*" matches any run of
\* characters, the path separator included; the patterns of this module use
\* no other wildcard.
RECURSIVE fnmatch(_, _)
fnmatch(name, pat) ==
    IF pat = <<>> THEN name = <<>>
    ELSE IF Head(pat) = "*"
         THEN \E k \in 0..Len(name) : fnmatch(SubSeq(name, k + 1, Len(name)), Tail(pat))
         ELSE name # <<>> /\ Head(name) = Head(pat) /\ fnmatch(Tail(name), Tail(pat))

\* str.lower() of a token: the file names and patterns of this module hold
\* two words with a capital letter
Lower(token) ==
    CASE token = "Dockerfile" -> "dockerfile"
      [] token = "Jenkinsfile" -> "jenkinsfile"
      [] OTHER -> token

\* os.path.normcase: the identity of posixpath; ntpath lowers the case (and
\* writes the separator as a backslash, which this module keeps as "/")
normcase(s) ==
    IF platform = "win32" THEN [i \in DOMAIN s |-> Lower(s[i])] ELSE s

\* fnmatch.filter(names, pat): pat and every name are matched normcased
fnmatch_filter(names, pat) == {n \in names : fnmatch(normcase(n), normcase(pat))}

----------------------------------------------------------------------------
(* The file system *)

\* os.getcwd(), the project root
Cwd == <<"/", "w">>

\* os.path.join(root, name)
Join(root, name) == root \o <<"/">> \o name

\* the path of a file given by its segments below the project root
RECURSIVE PathOf(_, _)
PathOf(root, segs) ==
    IF segs = <<>> THEN root ELSE PathOf(Join(root, Head(segs)), Tail(segs))

\* os.path.relpath(path): relative to the working directory
relpath(path) ==
    IF path = Cwd THEN <<".">>
    ELSE IF StartsWith(path, Cwd \o <<"/">>) THEN SubSeq(path, Len(Cwd) + 2, Len(path))
    ELSE IF StartsWith(path, <<".", "/">>) THEN SubSeq(path, 3, Len(path))
    ELSE IF StartsWith(path, <<"/">>) THEN <<"..">> \o path
    ELSE path

----------------------------------------------------------------------------
(* The registry *)

\* PATTERNS: glob patterns for what language is represented by what type of files
PATTERNS(language) ==
    CASE language = "all" -> << <<"*", ".", "*">> >>
      [] language = "ansible" -> << <<"*", ".", "yaml">>, <<"*", ".", "yml">> >>
      [] language = "docker" -> << <<"*", "Dockerfile">>, <<"*", ".", "dockerfile">> >>
      [] language = "gherkin" -> << <<"*", ".", "feature">> >>
      [] language = "go" -> << <<"*", ".", "go">> >>
      [] language = "groovy" -> << <<"*", ".", "groovy">>, <<"Jenkinsfile">>, <<"jenkinsfile">> >>
      [] language = "java" -> << <<"*", ".", "java">> >>
      [] language = "javascript" -> << <<"*", ".", "js">> >>
      [] language = "json" -> << <<"*", ".", "json">> >>
      [] language = "markdown" -> << <<"*", ".", "md">> >>
      [] language = "python" -> << <<"*", ".", "py">> >>
      [] language = "shell" -> << <<"*", ".", "sh">>, <<"*", ".", "zsh">>, <<"*", ".", "ksh">>,
                                  <<"*", ".", "bsh">>, <<"*", ".", "csh">>, <<"*", ".", "bash">> >>
      [] language = "stylus" -> << <<"*", ".", "styl">> >>
      [] language = "robotframework" -> << <<"*", ".", "robot">> >>
      [] language = "rst" -> << <<"*", ".", "rst">> >>
      [] language = "text" -> << <<"*", ".", "md">>, <<"*", ".", "txt">>, <<"*", ".", "rtf">>,
                                 <<"*", ".", "html">>, <<"*", ".", "tex">>, <<"*", ".", "markdown">> >>
      [] language = "yaml" -> << <<"*", ".", "yaml">>, <<"*", ".", "yml">> >>

\* TRUSTED_INSTALL: the commands install_trusted would run (the first three)
TRUSTED_INSTALL ==
    << <<"bundle", "install">>, <<"cabal", "update">>, <<"cabal", "install">> >>

\* One entry of LINTERS.  run_if_dotfile_in_root is config.get(...): FALSE
\* where the entry does not set it.
Linter(name, inst, help, run, rundefault, dotfiles, language, auto, per_file) ==
    [name |-> name, install |-> inst, help |-> help, run |-> run,
     rundefault |-> rundefault, dotfiles |-> dotfiles, language |-> language,
     autorun |-> auto, run_per_file |-> per_file,
     run_if_dotfile_in_root |-> FALSE, concurrency |-> 0]

\* LINTERS, in the order of the source (the order LINTERS.items() yields):
\* the entries of the languages python, all, go and text.
LINTERS ==
    << Linter("ansible-lint",
              << <<"python", "-m", "pip", "install", "-U", "ansible-lint">> >>,
              <<"ansible-lint", "-h">>,
              <<"ansible-lint", "-p">>,
              <<"ansible-lint", "-p", "-c", "{config_dir}/.ansible-lint">>,
              << <<".", "ansible-lint">> >>, "ansible", TRUE, TRUE),
       Linter("bandit",
              << <<"python", "-m", "pip", "install", "-U", "bandit">> >>,
              <<"bandit", "-h">>,
              <<"bandit", "-f", "json", "-iii", "-ll", "-r", ".">>,
              <<"bandit", "-f", "json", "-iii", "-ll", "-r", ".", "-c", "{config_dir}/bandit.yaml">>,
              << <<"bandit", ".", "yaml">> >>, "python", TRUE, FALSE),
       Linter("detect-secrets",
              << <<"python", "-m", "pip", "install", "-U", "git+https://github.com/Yelp/detect-secrets.git">> >>,
              <<"detect-secrets", "-h">>,
              <<"detect-secrets", "scan", "--all-files">>,
              <<"detect-secrets", "scan", "--all-files">>,
              <<>>, "all", TRUE, FALSE),
       Linter("eclint",
              << <<"npm", "install", "eclint">> >>,
              <<"./node_modules/.bin/eclint", "-h">>,
              <<"./node_modules/.bin/eclint", "check">>,
              <<"./node_modules/.bin/eclint", "check">>,
              << <<".", "editorconfig">> >>, "all", FALSE, TRUE),
       Linter("gometalinter.v2",
              << <<"go", "get", "-u", "gopkg.in/alecthomas/gometalinter.v2">>,
                 <<"gometalinter.v2", "--install", "--update">> >>,
              <<"gometalinter.v2", "--install", "--update">>,
              <<"gometalinter.v2", "--json", "./...">>,
              <<"gometalinter.v2", "--disable=lll", "--json",
                "--config={config_dir}/.gometalinter.json", "./...">>,
              << <<".", "gometalinter", ".", "json">> >>, "go", FALSE, FALSE),
       Linter("gometalinter",
              << <<"go", "get", "-u", "github.com/alecthomas/gometalinter">>,
                 <<"gometalinter", "--install", "--update">> >>,
              <<"gometalinter", "--install", "--update">>,
              <<"gometalinter", "--json", "./...">>,
              <<"gometalinter", "--disable=lll", "--json",
                "--config={config_dir}/.gometalinter.json", "./...">>,
              << <<".", "gometalinter", ".", "json">> >>, "go", TRUE, FALSE),
       Linter("megacheck",
              << <<"go", "get", "-u", "honnef.co/go/tools/cmd/megacheck">> >>,
              <<"megacheck", "--help">>,
              <<"megacheck", "-f", "json", "./...">>,
              <<"megacheck", "-f", "json", "./...">>,
              <<>>, "go", FALSE, FALSE),
       [Linter("proselint",
               << <<"python", "-m", "pip", "install", "-U", "proselint">> >>,
               <<"proselint", "-h">>,
               <<"proselint">>,
               <<"proselint">>,
               <<>>, "text", TRUE, TRUE) EXCEPT !.concurrency = 1],
       Linter("prospector",
              << <<"python", "-m", "pip", "install", "-U", "prospector[with_everything]">>,
                 <<"python", "-m", "pip", "install", "-U", "prospector">> >>,
              <<"prospector", "-h">>,
              <<"prospector", "--zero-exit", "-o", "json">>,
              <<"prospector", "--zero-exit", "-o", "json", "-P", "{config_dir}/.prospector.yaml">>,
              << <<".", "prospector", ".", "yaml">> >>, "python", TRUE, FALSE) >>

\* the characters of a linter's name, as the `in` tests of linters_to_run see it
Str(name) ==
    IF name = "gometalinter.v2" THEN <<"gometalinter", ".", "v2">> ELSE <<name>>

Names(reg) == {reg[i].name : i \in DOMAIN reg}

\* LINTERS.get(linter)
Config(reg, name) == reg[CHOOSE i \in DOMAIN reg : reg[i].name = name]

----------------------------------------------------------------------------
(* The project scanner *)

\* LinterRunner.should_ignore_path, for a list of rules.  (Iterating None
\* raises TypeError: the callers below test for it.)
should_ignore_path(path, rules) ==
    \E i \in DOMAIN rules :
        \/ StartsWith(relpath(path), rules[i])
        \/ StartsWith(path, rules[i])
        \/ fnmatch(path, rules[i])
        \/ rules[i] \in Range(Split(path, "/"))

\* "text" in identify.tags_from_path(path): what the identify library says of
\* the file; here every file but an image is text.
IsText(path) == ~fnmatch(path, <<"*", ".", "png">>)

\* os.walk: the directory names and the file names os.walk yields for the
\* directory `dir` (segments below the start of the walk) of the files `fs`
DirNames(fs, dir) ==
    {f[Len(dir) + 1] : f \in {g \in fs : Len(g) > Len(dir) + 1 /\ SubSeq(g, 1, Len(dir)) = dir}}

FileNames(fs, dir) ==
    {f[Len(dir) + 1] : f \in {g \in fs : Len(g) = Len(dir) + 1 /\ SubSeq(g, 1, Len(dir)) = dir}}

\* for ignore in ignore_paths: dirnames.remove(ignore)
\* inside try ... except ValueError: pass.  The first rule that names no
\* directory of this level raises and ends the loop.
RECURSIVE Pruned(_, _, _)
Pruned(dirnames, rules, i) ==
    IF i > Len(rules) THEN dirnames
    ELSE IF rules[i] \in dirnames THEN Pruned(dirnames \ {rules[i]}, rules, i + 1)
    ELSE dirnames

\* the body of the os.walk loop of all_filenames_in_dir, from `dir` down
RECURSIVE Walk(_, _, _, _)
Walk(fs, path, dir, rules) ==
    LET root == PathOf(path, dir)
        here == IF should_ignore_path(root, rules) THEN {}
                ELSE {p \in {Join(root, n) : n \in FileNames(fs, dir)} : IsText(p)}
    IN  here \cup UNION {Walk(fs, path, Append(dir, d), rules) :
                           d \in Pruned(DirNames(fs, dir), rules, 1)}

\* the directories os.walk yields as root in all_filenames_in_dir, from `dir`
\* down: it descends into the names the pruning left in dirnames
RECURSIVE Visited(_, _, _)
Visited(fs, dir, rules) ==
    {dir} \cup UNION {Visited(fs, Append(dir, d), rules) :
                        d \in Pruned(DirNames(fs, dir), rules, 1)}

\* LinterRunner.all_filenames_in_dir, for a list of rules; fs are the files
\* below path
all_filenames_in_dir(fs, path, rules) == Walk(fs, path, <<>>, rules)

\* os.listdir(path) of the root of the files fs
listdir(fs) == {f[1] : f \in fs}

\* LinterRunner.dotfiles_exist
dotfiles_exist(config, fs) ==
    \E i \in DOMAIN config.dotfiles : config.dotfiles[i] \in listdir(fs)

\* the autorun flag of the linter is not looked at
should_autorun_AnyLinter(config, filenames) ==
    \E i \in DOMAIN PATTERNS(config.language) :
        fnmatch_filter(filenames, PATTERNS(config.language)[i]) # {}

\* LinterRunner.should_autorun
should_autorun(config, filenames) ==
    /\ config.autorun
    /\ \E i \in DOMAIN PATTERNS(config.language) :
          fnmatch_filter(filenames, PATTERNS(config.language)[i]) # {}

----------------------------------------------------------------------------
(* The linter selector *)

\* Python truth of an argument: None, [] and "" are false
Truthy(v) ==
    \/ v.kind = "list" /\ v.items # <<>>
    \/ v.kind = "str" /\ v.chars # <<>>
    \/ v.kind = "dir" /\ v.path # <<>>

\* Mutant of Extended: the list is replaced by the pieces of its first item
\* instead of being extended by them.
Extended_FirstItemOnly(arg) ==
    IF ~Truthy(arg) THEN List(<<>>)
    ELSE IF arg.kind = "list" THEN List(Split(arg.items[1], ","))
    ELSE arg

\* enabled_linters = enabled_linters or []
\* try: enabled_linters.extend(enabled_linters[0].split(","))
\* except (IndexError, AttributeError): pass
\* A str has no extend (AttributeError): it stays the str it was.
Extended(arg) ==
    IF ~Truthy(arg) THEN List(<<>>)
    ELSE IF arg.kind = "list" THEN List(arg.items \o Split(arg.items[1], ","))
    ELSE arg

\* linter in enabled_linters: membership in a list, substring test in a str
Contains(v, name) ==
    IF v.kind = "list" THEN Str(name) \in Range(v.items)
    ELSE IsSubstring(Str(name), v.chars)

\* the cascade adds every linter of a language with a marker file, whatever
\* its autorun flag
RECURSIVE MarkerLoop_CascadeAll(_, _, _, _, _)
MarkerLoop_CascadeAll(reg, fs, disabled, i, acc) ==
    IF i > Len(reg) THEN acc
    ELSE LET config == reg[i]
             found == IF dotfiles_exist(config, fs)
                      THEN acc.found \cup {config.language} ELSE acc.found
             cascade == IF config.language \in found /\ ~Contains(disabled, config.name)
                        THEN {config.name} ELSE {}
         IN  MarkerLoop_CascadeAll(reg, fs, disabled, i + 1,
                        [found |-> found, linters |-> acc.linters \cup cascade])

\* the first loop of the autorun branch (lines 770-780), from entry i on.
\* acc.found is dotfilefound (the languages set to True), acc.linters is linters.
RECURSIVE MarkerLoop(_, _, _, _, _)
MarkerLoop(reg, fs, disabled, i, acc) ==
    IF i > Len(reg) THEN acc
    ELSE LET config == reg[i]
             found == IF dotfiles_exist(config, fs)
                      THEN acc.found \cup {config.language} ELSE acc.found
             forced == IF /\ dotfiles_exist(config, fs)
                          /\ config.run_if_dotfile_in_root
                          /\ ~Contains(disabled, config.name)
                       THEN {config.name} ELSE {}
             cascade == IF /\ config.language \in found
                           /\ config.autorun
                           /\ ~Contains(disabled, config.name)
                        THEN {config.name} ELSE {}
         IN  MarkerLoop(reg, fs, disabled, i + 1,
                        [found |-> found, linters |-> acc.linters \cup forced \cup cascade])

\* the second loop of the autorun branch (lines 782-788)
PatternLoop(reg, enabled, disabled, found, filenames) ==
    {reg[i].name : i \in {j \in DOMAIN reg :
        /\ \/ Contains(enabled, reg[j].name)
           \/ /\ reg[j].language \notin found
              /\ should_autorun(reg[j], filenames)
        /\ ~Contains(disabled, reg[j].name)}}

\* the branch of linters_to_run for autorun false (lines 765-767)
EnabledLoop(reg, enabled) ==
    {reg[i].name : i \in {j \in DOMAIN reg : Contains(enabled, reg[j].name)}}

\* LinterRunner.linters_to_run raises: all_filenames_in_dir iterates
\* ignore_paths, and None is not iterable
linters_to_run_raises(auto, ignore) == auto /\ ignore.kind = "None"

\* LinterRunner.linters_to_run, where it does not raise
linters_to_run(reg, fs, auto, ignore, enabled, disabled) ==
    LET en == Extended(enabled)
        dis == Extended(disabled)
    IN  IF ~auto THEN EnabledLoop(reg, en)
        ELSE LET acc == MarkerLoop(reg, fs, dis, 1, [found |-> {}, linters |-> {}])
                 filenames == all_filenames_in_dir(fs, Cwd, ignore.items)
             IN  acc.linters \cup PatternLoop(reg, en, dis, acc.found, filenames)

----------------------------------------------------------------------------
(* The inputs the model draws from *)

MaxFiles == 2        \* files in the project tree, marker files included
MaxNamed == 2        \* names given in enabled_linters and disabled_linters together

\* project files: app.py, src/main.go, node_modules/x.js, notes.md, logo.png
ProjectFiles ==
    { << <<"app", ".", "py">> >>,
      << <<"src">>, <<"main", ".", "go">> >>,
      << <<"node_modules">>, <<"x", ".", "js">> >>,
      << <<"notes", ".", "md">> >>,
      << <<"logo", ".", "png">> >> }

\* marker files ("dotfiles") a project root may hold
MarkerFiles ==
    { << <<"bandit", ".", "yaml">> >>,
      << <<".", "editorconfig">> >>,
      << <<".", "gometalinter", ".", "json">> >>,
      << <<".", "prospector", ".", "yaml">> >> }

Trees == {fs \in SUBSET (ProjectFiles \cup MarkerFiles) : Cardinality(fs) <= MaxFiles}

\* the lists of the names of a set of linters, in registry order
RECURSIVE ListOf(_, _, _)
ListOf(reg, names, i) ==
    IF i > Len(reg) THEN <<>>
    ELSE (IF reg[i].name \in names THEN <<Str(reg[i].name)>> ELSE <<>>)
         \o ListOf(reg, names, i + 1)

\* an argument naming the linters `names`: None or the list of the names
NameArgs(reg, names) ==
    IF names = {} THEN {None} ELSE {List(ListOf(reg, names, 1))}

\* ",".join(items)
RECURSIVE CommaJoin(_)
CommaJoin(items) ==
    IF items = <<>> THEN <<>>
    ELSE IF Len(items) = 1 THEN items[1]
    ELSE items[1] \o <<",">> \o CommaJoin(Tail(items))

\* an argument naming the linters `names` in the comma-separated form: None,
\* the string "a,b" or the one-element list ["a,b"]
CommaArgs(reg, names) ==
    IF names = {} THEN {None}
    ELSE LET joined == CommaJoin(ListOf(reg, names, 1))
         IN  {PyStr(joined), List(<<joined>>)}

\* the pairs of sets of names enabled_linters and disabled_linters are drawn from
NamedPairs(reg) ==
    {p \in (SUBSET Names(reg)) \X (SUBSET Names(reg)) :
        Cardinality(p[1]) + Cardinality(p[2]) <= MaxNamed}

\* ignore_paths: [], ["src", "node_modules"]
IgnoreLists == { <<>>, << <<"src">>, <<"node_modules">> >> }

----------------------------------------------------------------------------
(* The state *)

\* history of the run in progress:
\*   selected   the set linters_to_run returned
\*   order      the linters the loop has started, in order
\*   failed     the linters whose install or execution raised
\*   parsed     <<linter, diagnostic>>: what each parse returned, where the
\*              parse and the filtering of its result did not raise
\*   twice      <<linter, diagnostic>>: returned more than once by one parse
\*   unparsed   the linters whose parse, or the filtering of its result, raised
\*              (what the parser returned before the filtering raised is in
\*              parsed)
\*   stop_head  the linters started when the stop signal was set, if it was set
\*              while run_linters stood at the head of its loop; -1 otherwise
\*   stop_during  the linter that was executing when the stop signal was set,
\*              if it was set during a linter; "-" otherwise
\*   stopped    the run returned at the stop check
\*   ledger0    the install ledger when lint() was called
\*   recorded   for every command appended to the ledger in this run, in
\*              order, the linter install_linter was called for
\*   zero       the probes that exited zero: the linter, and the numbers of
\*              run_command calls and of recorded commands at that moment
HistInit ==
    [selected |-> {}, order |-> <<>>, failed |-> {}, parsed |-> {}, twice |-> {},
     unparsed |-> {}, stop_head |-> -1, stop_during |-> "-", stopped |-> FALSE, ledger0 |-> <<>>,
     recorded |-> <<>>, zero |-> {}]

RunnerInit ==
    /\ should_stop = FALSE
    /\ previous_install_commands = <<>>
    /\ messages = {}
    /\ pc = "idle"
    /\ todo = {}
    /\ linter = "-"
    /\ idx = 0
    /\ run_tasks = <<>>
    /\ awaiting = 0
    /\ collected = <<>>
    /\ output = [kind |-> "str", empty |-> TRUE, files |-> <<>>]
    /\ tasks = {}
    /\ result = [kind |-> "none", messages |-> {}]
    /\ runs = 0
    /\ calls = <<>>
    /\ hist = HistInit

----------------------------------------------------------------------------
(* The selector alone: linters_to_run applied to every input *)

InitSelect ==
    /\ registry = LINTERS
    /\ platform = "posix"
    /\ \E p \in NamedPairs(LINTERS) :
          /\ enabled_linters \in NameArgs(LINTERS, p[1])
          /\ disabled_linters \in NameArgs(LINTERS, p[2])
    /\ tree \in Trees
    /\ install = FALSE
    /\ autorun \in BOOLEAN
    /\ ignore_paths \in {List(l) : l \in IgnoreLists}
    /\ config_dir = None
    /\ trusted = FALSE
    /\ RunnerInit

\* linters = self.linters_to_run(autorun, ignore_paths, enabled_linters, disabled_linters)
Select ==
    /\ pc = "idle"
    /\ pc' = "selected"
    /\ todo' = linters_to_run(registry, tree, autorun, ignore_paths,
                              enabled_linters, disabled_linters)
    /\ UNCHANGED <<registry, platform, tree, config_dir, trusted, should_stop, install, autorun, ignore_paths,
                   enabled_linters, disabled_linters, previous_install_commands,
                   messages, linter, idx, run_tasks, awaiting, collected,
                   output, tasks, result, runs, calls, hist>>

NextSelect == Select

SpecSelect == InitSelect /\ [][NextSelect]_vars

----------------------------------------------------------------------------
(* The selector alone, its arguments in the comma-separated form *)

InitForms ==
    /\ registry = LINTERS
    /\ platform = "posix"
    /\ \E p \in NamedPairs(LINTERS) :
          /\ enabled_linters \in CommaArgs(LINTERS, p[1])
          /\ disabled_linters \in CommaArgs(LINTERS, p[2])
    /\ tree \in {fs \in Trees : fs \subseteq ProjectFiles}
    /\ install = FALSE
    /\ autorun \in BOOLEAN
    /\ ignore_paths = List(<<>>)
    /\ config_dir = None
    /\ trusted = FALSE
    /\ RunnerInit

NextForms == Select

SpecForms == InitForms /\ [][NextForms]_vars

----------------------------------------------------------------------------
(* The scanner alone: all_filenames_in_dir applied to every input *)

\* ignore rules: none, a directory name, two directory names in either
\* order, a glob, a file name
ScanRules ==
    { <<>>,
      << <<"src">> >>,
      << <<"src">>, <<"node_modules">> >>,
      << <<"node_modules">>, <<"src">> >>,
      << <<"*", ".", "py">> >>,
      << <<"notes", ".", "md">> >> }

InitScan ==
    /\ registry = LINTERS
    /\ platform = "posix"
    /\ tree \in Trees
    /\ ignore_paths \in {List(l) : l \in ScanRules}
    /\ install = FALSE
    /\ autorun = FALSE
    /\ enabled_linters = None
    /\ disabled_linters = None
    /\ config_dir = None
    /\ trusted = FALSE
    /\ RunnerInit

\* self.all_filenames_in_dir(path=os.getcwd(), ignore_paths=ignore_paths)
Scan ==
    /\ pc = "idle"
    /\ pc' = "scanned"
    /\ result' = [kind |-> "filenames",
                  paths |-> all_filenames_in_dir(tree, Cwd, ignore_paths.items),
                  roots |-> Visited(tree, <<>>, ignore_paths.items)]
    /\ UNCHANGED <<registry, platform, tree, config_dir, trusted, should_stop, install, autorun,
                   ignore_paths, enabled_linters, disabled_linters,
                   previous_install_commands, messages, todo, linter, idx,
                   run_tasks, awaiting, collected, output, tasks, runs, calls, hist>>

NextScan == Scan

SpecScan == InitScan /\ [][NextScan]_vars

\* C14: no path all_filenames_in_dir returns satisfies should_ignore_path
\* for the ignore rules it was given.
C14_NoIgnoredFile ==
    pc = "scanned" =>
        \A p \in result.paths : ~should_ignore_path(p, ignore_paths.items)

\* C21: the traversal of all_filenames_in_dir visits no directory below the
\* start of the walk whose name, or the name of a directory above it, equals
\* one of the ignore rules.
C21_PrunedNeverVisited ==
    pc = "scanned" =>
        \A dir \in result.roots :
            \A k \in DOMAIN dir : dir[k] \notin Range(ignore_paths.items)

----------------------------------------------------------------------------
(* Properties of the selector *)

\* the linters an enabled_linters or disabled_linters argument names: the
\* items of the list, or of the comma-separated string
Named(reg, arg) ==
    IF arg.kind = "None" THEN {}
    ELSE IF arg.kind = "list"
         THEN {n \in Names(reg) : \E i \in DOMAIN arg.items :
                                     Str(n) \in Range(Split(arg.items[i], ","))}
         ELSE {n \in Names(reg) : Str(n) \in Range(Split(arg.chars, ","))}

Selected == pc = "selected"

\* C1: in either autorun mode, no linter named in disabled_linters is in the
\* set linters_to_run returns.
C1_DisabledNeverSelected ==
    Selected => todo \cap Named(registry, disabled_linters) = {}

\* C2: with autorun false, linters_to_run returns exactly the linters named
\* in enabled_linters, whatever files the project holds.
C2_ExactlyEnabled ==
    (Selected /\ ~autorun) => todo = Named(registry, enabled_linters)

\* C2 witness: autorun false, two linters returned and a marker file in the root
C2_Witness ==
    /\ Selected /\ ~autorun
    /\ Cardinality(todo) = 2
    /\ tree \cap MarkerFiles # {}

\* C3: in autorun mode, for two linters A and B of one language, in either
\* registry order: if a marker file of A is in the root and B declares
\* autorun, has no marker file in the root and is not disabled, B is selected.
C3_MarkerCascade ==
    (Selected /\ autorun) =>
        \A a, b \in DOMAIN registry :
            (/\ a # b
             /\ registry[a].language = registry[b].language
             /\ dotfiles_exist(registry[a], tree)
             /\ registry[b].autorun
             /\ ~dotfiles_exist(registry[b], tree)
             /\ registry[b].name \notin Named(registry, disabled_linters))
            => registry[b].name \in todo

\* the files the scan of the project yields under the ignore rules of the call
Candidates == all_filenames_in_dir(tree, Cwd, ignore_paths.items)

\* no linter of the registry has a marker file in the project root
NoMarker == \A i \in DOMAIN registry : ~dotfiles_exist(registry[i], tree)

\* C11: in autorun mode with no marker file in the root and nothing enabled
\* or disabled, the selected linters are exactly those that declare autorun
\* and have a pattern of their language matching a candidate file.
C11_AutorunByPattern ==
    (/\ Selected /\ autorun /\ NoMarker
     /\ Named(registry, enabled_linters) = {}
     /\ Named(registry, disabled_linters) = {})
    => todo = {registry[i].name : i \in {j \in DOMAIN registry :
                  /\ registry[j].autorun
                  /\ \E k \in DOMAIN PATTERNS(registry[j].language) :
                        \E f \in Candidates :
                            fnmatch(f, PATTERNS(registry[j].language)[k])}}

\* C11 witness: two linters selected by their patterns, and a linter that
\* does not declare autorun left out although a file matches its pattern
C11_Witness ==
    /\ Selected /\ autorun /\ NoMarker
    /\ Named(registry, enabled_linters) = {}
    /\ Named(registry, disabled_linters) = {}
    /\ Cardinality(todo) >= 2
    /\ \E i \in DOMAIN registry :
          /\ ~registry[i].autorun
          /\ should_autorun_AnyLinter(registry[i], Candidates)
          /\ registry[i].name \notin todo

\* C12: in autorun mode a linter that declares neither autorun nor
\* run_if_dotfile_in_root is selected if and only if it is named in
\* enabled_linters and not in disabled_linters, marker file or not.
C12_ManualOnlyByName ==
    (Selected /\ autorun) =>
        \A i \in DOMAIN registry :
            (~registry[i].autorun /\ ~registry[i].run_if_dotfile_in_root) =>
                (registry[i].name \in todo
                   <=> /\ registry[i].name \in Named(registry, enabled_linters)
                       /\ registry[i].name \notin Named(registry, disabled_linters))

\* C12 witness: a linter that does not declare autorun has its marker file
\* in the root and is not selected, and another one is selected by name
C12_Witness ==
    /\ Selected /\ autorun
    /\ \E i, j \in DOMAIN registry :
          /\ ~registry[i].autorun /\ ~registry[j].autorun
          /\ dotfiles_exist(registry[i], tree)
          /\ registry[i].name \notin todo
          /\ registry[j].name \in todo

----------------------------------------------------------------------------
(* The run: LinterRunner.lint and run_linters *)

MaxRuns == 2         \* lint() calls on one LinterRunner
MaxTools == 2        \* linters selected in one run
MaxFindings == 2     \* diagnostics one parse returns

\* INSTALL_DIRS: these dirs will get deleted after a run
INSTALL_DIRS == { <<"node_modules">>, <<".", "bundle">> }

\* LinterRunner.cleanup: shutil.rmtree of each install dir of the working directory
cleanup(fs) == {f \in fs : f[1] \notin INSTALL_DIRS}

\* the diagnostics a parser can report: (path, line, text)
Findings ==
    { [path |-> <<"app", ".", "py">>, line |-> 1, text |-> "E"],
      [path |-> <<"src", "/", "main", ".", "go">>, line |-> 1, text |-> "E"] }

RECURSIVE SeqsUpTo(_, _)
SeqsUpTo(S, n) ==
    IF n = 0 THEN {<<>>}
    ELSE LET shorter == SeqsUpTo(S, n - 1)
         IN  shorter \cup {Append(q, x) : q \in shorter, x \in S}

\* what parser().parse(output) can yield
ParseResults == SeqsUpTo(Findings, MaxFindings)

\* the text without the linter's name
Prefixed_NoName(name, msg) == [path |-> msg.path, line |-> msg.line, text |-> <<"", msg.text>>]

\* (msg[0], msg[1], "{0}: {1}".format(linter, msg[2])): the text is the pair
\* of the linter's name and the parser's text
Prefixed(name, msg) == [path |-> msg.path, line |-> msg.line, text |-> <<name, msg.text>>]

\* every message of the parser, ignored or not
linter_messages_Unfiltered(name, parsed, rules) ==
    {Prefixed(name, parsed[i]) : i \in DOMAIN parsed}

\* linter_messages (lines 940-944), for a list of ignore rules
linter_messages(name, parsed, rules) ==
    {Prefixed(name, parsed[i]) : i \in {j \in DOMAIN parsed :
                                          ~should_ignore_path(parsed[j].path, rules)}}

\* the set comprehension of lines 940-944 raises: should_ignore_path iterates
\* ignore_paths for the first message, and None is not iterable
linter_messages_raises(parsed, ignore) == parsed # <<>> /\ ignore.kind = "None"

\* the values of the local variable output of run_linters
NoOutput == [kind |-> "str", empty |-> TRUE, files |-> <<>>]
TextOutput == [kind |-> "str", empty |-> FALSE, files |-> <<>>]
FileOutput(files) == [kind |-> "list", empty |-> files = <<>>, files |-> files]

\* one call of run_command: a command line, whose items had config_dir
\* substituted for {config_dir}, and the file appended to it, if any
Call(name, role, cmd, file) ==
    [run |-> runs, linter |-> name, role |-> role, argv |-> cmd.argv,
     config_dir |-> cmd.config_dir, file |-> file]

\* os.path.abspath(os.path.join(HERE, "config")): the bundled config directory
BundledConfig == <<"HERE", "/", "config">>

\* the items of the commands of LINTERS that hold the placeholder {config_dir}
TemplateItems ==
    {"{config_dir}/.ansible-lint", "{config_dir}/bandit.yaml",
     "--config={config_dir}/.gometalinter.json", "{config_dir}/.prospector.yaml"}

\* a command line as the registry gives it
Plain(argv) == [argv |-> argv, config_dir |-> <<>>]

\* [item.format(config_dir=config_dir) for item in argv]: the command line
\* with the directory its placeholders stand for; a command without a
\* placeholder is the same whatever the directory.  (os.path.normpath
\* changes none of the items of LINTERS.)
Format(argv, dir) ==
    [argv |-> argv,
     config_dir |-> IF \E i \in DOMAIN argv : argv[i] \in TemplateItems THEN dir ELSE <<>>]

\* LinterRunner.run_config: the plain run command where the linter's
\* dotfiles are in the project root; otherwise the config-aware command,
\* formatted with config_dir if it is given and holds the dotfiles, and
\* with the bundled directory if not
run_config(config, fs, cdir) ==
    IF dotfiles_exist(config, fs) /\ config.run # <<>> THEN Plain(config.run)
    ELSE Format(IF config.rundefault # <<>> THEN config.rundefault ELSE config.run,
                IF Truthy(cdir) /\ dotfiles_exist(config, cdir.files)
                THEN cdir.path ELSE BundledConfig)

\* the files run_per_file creates a task for, per pattern of the language:
\* fnmatch.filter(paths, pattern) narrowed to text files; the scan starts at
\* path, or at the working directory if path is None
PerFileMatches(config, fs, ignore, path, i) ==
    LET rules == IF Truthy(ignore) THEN ignore.items ELSE <<>>
        paths == IF Truthy(path) THEN all_filenames_in_dir(path.files, path.path, rules)
                 ELSE all_filenames_in_dir(fs, Cwd, rules)
    IN  {p \in fnmatch_filter(paths, PATTERNS(config.language)[i]) : IsText(p)}

\* the orders in which a for loop can visit a set
Orders(S) ==
    {q \in [1..Cardinality(S) -> S] : \A i, j \in 1..Cardinality(S) : i # j => q[i] # q[j]}

\* run_cmds of run_per_file: for pattern in patterns: for filepath in matches
RECURSIVE RunFiles(_, _, _, _, _)
RunFiles(config, fs, ignore, path, i) ==
    IF i > Len(PATTERNS(config.language)) THEN {<<>>}
    ELSE {q \o rest : q \in Orders(PerFileMatches(config, fs, ignore, path, i)),
                      rest \in RunFiles(config, fs, ignore, path, i + 1)}

\* the project tree of the runs: src/main.go, .gometalinter.json and
\* node_modules/x.js
RunTree ==
    { << <<"src">>, <<"main", ".", "go">> >>,
      << <<".", "gometalinter", ".", "json">> >>,
      << <<"node_modules">>, <<"x", ".", "js">> >> }

\* the linters the lint() calls of the model name in enabled_linters
RunNames == {"eclint", "gometalinter.v2", "gometalinter"}

\* the arguments of the lint() calls of the model
LintArgs(reg) ==
    {[install |-> i, autorun |-> a, ignore_paths |-> List(ig),
      enabled_linters |-> en, disabled_linters |-> None,
      config_dir |-> None, trusted |-> FALSE] :
        i \in BOOLEAN, a \in BOOLEAN, ig \in IgnoreLists,
        en \in UNION {NameArgs(reg, ns) : ns \in {x \in SUBSET RunNames :
                                                    Cardinality(x) <= MaxTools}}}

\* lint(install=True, ignore_paths=[...]) with rules that match the path of
\* one of the diagnostics
InstallArgs(reg) ==
    {x \in LintArgs(reg) : x.install /\ ~x.autorun /\ x.ignore_paths.items # <<>>}

\* the directories given as config_dir: one holding bandit.yaml and
\* .ansible-lint, one holding .prospector.yaml only
ConfigDirs ==
    { Dir(<<"/", "cfg">>, { << <<"bandit", ".", "yaml">> >>, << <<".", "ansible-lint">> >> }),
      Dir(<<"/", "cfg">>, { << <<".", "prospector", ".", "yaml">> >> }) }

\* the linters the lint(config_dir=...) calls of the model name
ConfigDirNames == {"ansible-lint", "bandit", "gometalinter"}

\* lint(config_dir=..., enabled_linters=[...]), with or without a directory
ConfigDirArgs(reg) ==
    {[install |-> FALSE, autorun |-> FALSE, ignore_paths |-> List(<<>>),
      enabled_linters |-> en, disabled_linters |-> None,
      config_dir |-> d, trusted |-> FALSE] :
        d \in ConfigDirs \cup {None},
        en \in UNION {NameArgs(reg, ns) : ns \in {x \in SUBSET ConfigDirNames :
                                                    Cardinality(x) <= MaxTools}}}

\* lint(install=True, trusted=True, ...)
TrustedArgs(reg) == {[x EXCEPT !.trusted = TRUE] : x \in InstallArgs(reg)}

\* lint() with install and autorun left False
PlainArgs(reg) == {x \in LintArgs(reg) : ~x.install /\ ~x.autorun}

Init ==
    /\ registry = LINTERS
    /\ platform = "posix"
    /\ tree = RunTree
    /\ install = FALSE
    /\ autorun = FALSE
    /\ ignore_paths = List(<<>>)
    /\ enabled_linters = None
    /\ disabled_linters = None
    /\ config_dir = None
    /\ trusted = FALSE
    /\ RunnerInit

\* the exception of linters_to_run leaves run_linters and lint()
Raised == [kind |-> "raised", messages |-> {}]

\* the run returns an empty set
Returned_Nothing(msgs) == [kind |-> "returned", messages |-> {}]

\* return messages.get_messages()
Returned(msgs) == [kind |-> "returned", messages |-> msgs]

\* the calls of run_command the body of install_trusted makes
install_trusted ==
    [i \in DOMAIN TRUSTED_INSTALL |->
        [run |-> runs + 1, linter |-> "-", role |-> "trusted",
         argv |-> TRUSTED_INSTALL[i], config_dir |-> <<>>, file |-> <<>>]]

\* self.install_trusted() without await: the call of an async def makes a
\* coroutine object, which run_linters drops; the body never runs
not_awaited(coroutine) == <<>>

\* lint(...) runs run_linters; this is run_linters up to the head of its for
\* loop: messages = message.Messages(), cleanup(), performance_hacks() (whose
\* exceptions are swallowed), install_trusted() called but not awaited, and
\* linters_to_run(...).  The locals of an earlier call are gone.
run_linters(args) ==
    /\ pc = "idle"
    /\ LET fs == cleanup(tree)
           raises == linters_to_run_raises(args.autorun, args.ignore_paths)
           sel == IF raises THEN {}
                  ELSE linters_to_run(registry, fs, args.autorun, args.ignore_paths,
                                      args.enabled_linters, args.disabled_linters)
       IN  /\ Cardinality(sel) <= MaxTools
           /\ pc' = IF raises THEN "idle" ELSE "loop"
           /\ result' = IF raises THEN Raised ELSE [kind |-> "none", messages |-> {}]
           /\ tree' = fs
           /\ todo' = sel
           /\ hist' = [HistInit EXCEPT !.selected = sel,
                                       !.ledger0 = previous_install_commands]
    /\ install' = args.install
    /\ autorun' = args.autorun
    /\ ignore_paths' = args.ignore_paths
    /\ enabled_linters' = args.enabled_linters
    /\ disabled_linters' = args.disabled_linters
    /\ config_dir' = args.config_dir
    /\ trusted' = args.trusted
    /\ runs' = runs + 1
    /\ messages' = {}
    /\ calls' = << [run |-> runs + 1, linter |-> "-", role |-> "hack",
                     argv |-> <<"npm", "set", "progress=false">>,
                     config_dir |-> <<>>, file |-> <<>>] >>
                 \o (IF args.trusted /\ (args.install \/ args.autorun)
                     THEN not_awaited(install_trusted) ELSE <<>>)
    /\ linter' = "-"
    /\ idx' = 0
    /\ run_tasks' = <<>>
    /\ awaiting' = 0
    /\ collected' = <<>>
    /\ output' = NoOutput
    /\ UNCHANGED <<registry, platform, should_stop, previous_install_commands, tasks>>

\* the first lint() call on a new LinterRunner
lint == runs = 0 /\ \E args \in LintArgs(registry) : run_linters(args)

\* the first call is lint(install=True, ...)
lint_install == runs = 0 /\ \E args \in InstallArgs(registry) : run_linters(args)

\* the first call is lint() with install and autorun left False
lint_plain == runs = 0 /\ \E args \in PlainArgs(registry) : run_linters(args)

\* the first call is lint(config_dir=..., ...)
lint_config_dir == runs = 0 /\ \E args \in ConfigDirArgs(registry) : run_linters(args)

\* the first call is lint(install=True, trusted=True, ...)
lint_trusted == runs = 0 /\ \E args \in TrustedArgs(registry) : run_linters(args)

\* lint() called again on the same LinterRunner, with the arguments of the
\* call before
lint_again ==
    /\ runs > 0 /\ runs < MaxRuns
    /\ run_linters([install |-> install, autorun |-> autorun,
                    ignore_paths |-> ignore_paths,
                    enabled_linters |-> enabled_linters,
                    disabled_linters |-> disabled_linters,
                    config_dir |-> config_dir, trusted |-> trusted])

\* the stop check answers FALSE whatever the signal
system_should_stop_Never(signal) == FALSE

\* system.should_stop(): the stop signal of the environment
system_should_stop(signal) == signal

\* the head of the for loop: the loop ends, or the stop signal is seen, or
\* the next linter starts (a set is visited in any order)
loop_next ==
    /\ pc = "loop"
    /\ IF todo = {} \/ system_should_stop(should_stop)
       THEN /\ pc' = "idle"
            /\ result' = Returned(messages)
            /\ hist' = [hist EXCEPT !.stopped = (todo # {})]
            /\ UNCHANGED <<todo, linter, idx, output>>
       ELSE \E l \in todo :
            /\ todo' = todo \ {l}
            /\ linter' = l
            /\ output' = NoOutput
            /\ hist' = [hist EXCEPT !.order = Append(@, l)]
            /\ IF (install \/ autorun) /\ Config(registry, l).install # <<>>
               THEN pc' = "install" /\ idx' = 1
               ELSE pc' = "dispatch" /\ idx' = 0
            /\ UNCHANGED result
    /\ UNCHANGED <<registry, platform, tree, config_dir, trusted, should_stop, install, autorun, ignore_paths,
                   enabled_linters, disabled_linters, previous_install_commands,
                   messages, run_tasks, awaiting, collected, tasks, runs, calls>>

\* the exception leaves run_linters
except_Exception_Propagates == "idle"

\* where run_linters goes on when the install or the execution of the linter
\* raises: its except clause logs, and the parse phase follows
except_Exception == "parse"

\* no command is ever found in the ledger
in_ledger_Never(install_cmd, ledger) == FALSE

\* install_cmd in self.previous_install_commands
in_ledger(install_cmd, ledger) == install_cmd \in Range(ledger)

\* install_linter, the head of its for loop: the loop ends, or the command
\* is in the ledger already, or it is recorded
install_next ==
    /\ pc = "install"
    /\ LET cmds == Config(registry, linter).install
       IN  IF idx > Len(cmds)
           THEN /\ pc' = "dispatch"
                /\ UNCHANGED <<idx, previous_install_commands>>
           ELSE IF in_ledger(cmds[idx], previous_install_commands)
           THEN /\ idx' = idx + 1
                /\ UNCHANGED <<pc, previous_install_commands>>
           ELSE /\ previous_install_commands' = Append(previous_install_commands, cmds[idx])
                /\ pc' = "probe"
                /\ UNCHANGED idx
    /\ hist' = IF pc' = "probe" THEN [hist EXCEPT !.recorded = Append(@, linter)] ELSE hist
    /\ UNCHANGED <<registry, platform, tree, config_dir, trusted, should_stop, install, autorun, ignore_paths,
                   enabled_linters, disabled_linters, messages, todo, linter,
                   run_tasks, awaiting, collected, output, tasks, result, runs,
                   calls>>

\* how a run_command of a help or install command can end
Outcomes == {"zero", "nonzero", "OSError", "Exception"}

\* the install command is executed whatever the probe says
after_probe_AlwaysInstall(o) == "do_install"

\* if not await self.installed(config): ... else: return
\* a return code other than zero and an OSError both mean not installed,
\* another exception passes through install_linter to run_linters
after_probe(o) ==
    CASE o = "zero" -> "dispatch"
      [] o \in {"nonzero", "OSError"} -> "do_install"
      [] OTHER -> except_Exception

\* installed(config): run_command(config.get("help"))
probe ==
    /\ pc = "probe"
    /\ calls' = Append(calls, Call(linter, "help", Plain(Config(registry, linter).help), <<>>))
    /\ \E o \in Outcomes :
          /\ pc' = after_probe(o)
          /\ hist' = CASE o = "Exception" -> [hist EXCEPT !.failed = @ \cup {linter}]
                       [] o = "zero" ->
                            [hist EXCEPT !.zero = @ \cup {[linter |-> linter,
                                                           calls |-> Len(calls'),
                                                           recorded |-> Len(hist.recorded)]}]
                       [] OTHER -> hist
    /\ UNCHANGED <<registry, platform, tree, config_dir, trusted, should_stop, install, autorun, ignore_paths,
                   enabled_linters, disabled_linters, previous_install_commands,
                   messages, todo, linter, idx, run_tasks, awaiting, collected,
                   output, tasks, result, runs>>

\* run_command(install_cmd, log_all=True) inside try ... except OSError
do_install ==
    /\ pc = "do_install"
    /\ calls' = Append(calls, Call(linter, "install",
                                   Plain(Config(registry, linter).install[idx]), <<>>))
    /\ \E o \in Outcomes :
          IF o = "Exception"
          THEN /\ pc' = except_Exception
               /\ hist' = [hist EXCEPT !.failed = @ \cup {linter}]
               /\ UNCHANGED idx
          ELSE /\ pc' = "install"
               /\ idx' = idx + 1
               /\ UNCHANGED hist
    /\ UNCHANGED <<registry, platform, tree, config_dir, trusted, should_stop, install, autorun, ignore_paths,
                   enabled_linters, disabled_linters, previous_install_commands,
                   messages, todo, linter, run_tasks, awaiting, collected,
                   output, tasks, result, runs>>

\* the timeout argument of the run_command call of a task: timeout=5 in
\* run_per_file, the default of run_command otherwise
Timeout(k) == IF k > 0 THEN 5 ELSE 120

\* a run_command task of the event loop: the linter and the run it was
\* created for, its place k in run_tasks (0: the whole-project command),
\* its file, st: "running", "ok" or "raised", its timeout, and late: the
\* subprocess has been running for longer than the timeout
Task(name, k, file) ==
    [linter |-> name, run |-> runs, k |-> k, file |-> file, st |-> "running",
     timeout |-> Timeout(k), late |-> FALSE]

\* the tasks whose subprocess is still running
InFlight == {t \in tasks : t.st = "running"}

\* the tasks run_per_file is going to await
Awaited(t) == pc = "await" /\ t.run = runs /\ t.linter = linter /\ t.k >= awaiting

\* self.run_per_file(config, ignore_paths, config_dir) binds its second and
\* third positional argument, which are ignore_paths and path of
\* run_per_file(self, config, ignore_paths=None, path=None, config_dir=None)
run_per_file_args(ignore, cdir) ==
    [ignore_paths |-> ignore, path |-> cdir, config_dir |-> None]

\* a linter with a concurrency key has that many tasks created
Created_UpToConcurrency(config, files) ==
    IF config.concurrency > 0
    THEN {k \in DOMAIN files : k <= config.concurrency}
    ELSE DOMAIN files

\* the commands of run_cmds run_per_file has created a task for when its
\* first loop ends: all; no line of it reads config["concurrency"]
Created(config, files) == DOMAIN files

\* the execution of the linter starts: run_per_file creates one task per
\* match of each pattern, all before it awaits the first; a whole-project
\* linter awaits one run_command
dispatch ==
    /\ pc = "dispatch"
    /\ LET config == Config(registry, linter)
           per_file == run_per_file_args(ignore_paths, config_dir)
           cmd == IF config.run_per_file
                  THEN run_config(config, tree, per_file.config_dir)
                  ELSE run_config(config, tree, config_dir)
       IN  IF config.run_per_file
           THEN \E files \in RunFiles(config, tree, per_file.ignore_paths, per_file.path, 1) :
                /\ run_tasks' = files
                /\ tasks' = tasks \cup {Task(linter, k, files[k]) : k \in Created(config, files)}
                /\ calls' = calls \o [k \in DOMAIN files |-> Call(linter, "run", cmd, files[k])]
                /\ awaiting' = 1
                /\ collected' = <<>>
                /\ pc' = "await"
           ELSE /\ tasks' = tasks \cup {Task(linter, 0, <<>>)}
                /\ calls' = Append(calls, Call(linter, "run", cmd, <<>>))
                /\ pc' = "running"
                /\ UNCHANGED <<run_tasks, awaiting, collected>>
    /\ UNCHANGED <<registry, platform, tree, config_dir, trusted, should_stop, install, autorun, ignore_paths,
                   enabled_linters, disabled_linters, previous_install_commands,
                   messages, todo, linter, idx, output, result, runs, hist>>

\* _, output = await self.run_command(cmd): the process exits with some
\* output or none, or run_command raises
run_done ==
    /\ pc = "running"
    /\ tasks' = tasks \ {t \in tasks : t.linter = linter /\ t.run = runs /\ t.k = 0}
    /\ \E o \in {"output", "nothing", "Exception"} :
          /\ output' = IF o = "output" THEN TextOutput ELSE NoOutput
          /\ pc' = IF o = "Exception" THEN except_Exception ELSE "parse"
          /\ hist' = IF o = "Exception" THEN [hist EXCEPT !.failed = @ \cup {linter}] ELSE hist
    /\ UNCHANGED <<registry, platform, tree, config_dir, trusted, should_stop, install, autorun, ignore_paths,
                   enabled_linters, disabled_linters, previous_install_commands,
                   messages, todo, linter, idx, run_tasks, awaiting, collected,
                   result, runs, calls>>

\* the subprocess of a per-file task ends: run_command returns or raises.
\* A task nobody is going to await leaves the event loop with that.
task_finish ==
    /\ \E t \in InFlight, st \in {"ok", "raised"} :
          /\ t.k > 0
          /\ tasks' = IF Awaited(t) THEN (tasks \ {t}) \cup {[t EXCEPT !.st = st]}
                      ELSE tasks \ {t}
    /\ UNCHANGED <<registry, platform, tree, config_dir, trusted, should_stop, install, autorun, ignore_paths,
                   enabled_linters, disabled_linters, previous_install_commands,
                   messages, pc, todo, linter, idx, run_tasks, awaiting, collected,
                   output, result, runs, calls, hist>>

\* the tasks run_per_file leaves behind when an awaited task raises: what
\* it created and has not awaited yet
LeftBehind(t) == {u \in tasks : u.run = t.run /\ u.linter = t.linter /\ u.k > t.k}

\* run_linters gets the pairs collected before the task raised
output_after_raise_Partial(out, pairs) == FileOutput(pairs)

\* output of run_linters when an awaited task raises: the exception leaves
\* run_per_file, its local list is lost, and output = await ... assigns
\* nothing
output_after_raise(out, pairs) == out

\* _, out = await run_task; output.append((run_cmd[-1], out.strip())), for
\* the tasks in the order of their creation; then return output
await_task ==
    /\ pc = "await"
    /\ IF awaiting > Len(run_tasks)
       THEN /\ output' = FileOutput(collected)
            /\ pc' = "parse"
            /\ UNCHANGED <<tasks, awaiting, collected, hist>>
       ELSE \E t \in tasks :
            /\ t.run = runs /\ t.linter = linter /\ t.k = awaiting
            /\ t.st # "running"
            /\ IF t.st = "ok"
               THEN /\ collected' = Append(collected, t.file)
                    /\ awaiting' = awaiting + 1
                    /\ tasks' = tasks \ {t}
                    /\ UNCHANGED <<pc, output, hist>>
               ELSE /\ pc' = except_Exception
                    /\ tasks' = (tasks \ {t}) \ {u \in LeftBehind(t) : u.st # "running"}
                    /\ hist' = [hist EXCEPT !.failed = @ \cup {linter}]
                    /\ output' = output_after_raise(output, collected)
                    /\ UNCHANGED <<awaiting, collected>>
    /\ UNCHANGED <<registry, platform, tree, config_dir, trusted, should_stop, install, autorun, ignore_paths,
                   enabled_linters, disabled_linters, previous_install_commands,
                   messages, todo, linter, idx, run_tasks, result, runs, calls>>

\* messages.add_messages(linter_messages): Messages holds a set
add_messages(msgs, new) == msgs \cup new

\* the messages built before the exception are added
parse_raised_Partial(msgs, new) == msgs \cup new

\* the messages of the run when the try block of the parse phase raises:
\* add_messages is its last statement and has not been reached
parse_raised(msgs, new) == msgs

\* the parse phase: if output is not empty, parse it, prefix and filter the
\* result and add it to the messages; an exception of any of these is logged
parse ==
    /\ pc = "parse"
    /\ IF output.empty
       THEN UNCHANGED <<messages, hist>>
       ELSE \E o \in {"parsed", "Exception"}, parsed \in ParseResults :
            IF o = "Exception" \/ linter_messages_raises(parsed, ignore_paths)
            THEN /\ messages' = parse_raised(messages,
                                    IF ignore_paths.kind = "list"
                                    THEN linter_messages(linter, parsed, ignore_paths.items)
                                    ELSE {})
                 /\ hist' = [hist EXCEPT
                       !.unparsed = @ \cup {linter},
                       !.parsed = IF o = "parsed"
                                  THEN @ \cup {<<linter, parsed[i]>> : i \in DOMAIN parsed}
                                  ELSE @]
            ELSE /\ messages' = add_messages(messages,
                                    linter_messages(linter, parsed, ignore_paths.items))
                 /\ hist' = [hist EXCEPT
                       !.parsed = @ \cup {<<linter, parsed[i]>> : i \in DOMAIN parsed},
                       !.twice = @ \cup {<<linter, parsed[i]>> : i \in
                                    {j \in DOMAIN parsed : \E k \in DOMAIN parsed :
                                                             k # j /\ parsed[k] = parsed[j]}}]
    /\ pc' = "loop"
    /\ UNCHANGED <<registry, platform, tree, config_dir, trusted, should_stop, install, autorun, ignore_paths,
                   enabled_linters, disabled_linters, previous_install_commands,
                   todo, linter, idx, run_tasks, awaiting, collected, output,
                   tasks, result, runs, calls>>

\* the environment sets the stop signal
stop ==
    /\ ~should_stop
    /\ should_stop' = TRUE
    /\ hist' = IF pc = "loop" THEN [hist EXCEPT !.stop_head = Len(hist.order)]
               ELSE IF pc # "idle" THEN [hist EXCEPT !.stop_during = linter]
               ELSE hist
    /\ UNCHANGED <<registry, platform, tree, config_dir, trusted, install, autorun, ignore_paths, enabled_linters,
                   disabled_linters, previous_install_commands, messages, pc, todo,
                   linter, idx, run_tasks, awaiting, collected, output, tasks,
                   result, runs, calls>>

\* the steps of install_linter
Install ==
    \/ install_next
    \/ probe
    \/ do_install

\* the other steps of a run
Execute ==
    \/ loop_next
    \/ dispatch
    \/ run_done
    \/ task_finish
    \/ await_task
    \/ parse
    \/ stop

\* one lint() call on a new LinterRunner, as the command line makes it
Next == lint \/ Install \/ Execute

Spec == Init /\ [][Next]_vars

\* the entries of LINTERS of the languages docker and text, both run per file
PerFileLinters ==
    << Linter("dockerfile_lint",
              << <<"npm", "install", "dockerfile_lint">> >>,
              <<"./node_modules/.bin/dockerfile_lint", "-h">>,
              <<"./node_modules/.bin/dockerfile_lint", "-j", "-f">>,
              <<"./node_modules/.bin/dockerfile_lint", "-j", "-f">>,
              <<>>, "docker", TRUE, TRUE),
       Config(LINTERS, "proselint") >>

\* the files of the projects the per-file linters are run on
PerFileProject ==
    { << <<"Dockerfile">> >>,
      << <<"web", ".", "dockerfile">> >>,
      << <<"notes", ".", "md">> >>,
      << <<"guide", ".", "txt">> >>,
      << <<"page", ".", "html">> >> }

\* lint(enabled_linters=[...]) naming per-file linters
PerFileArgs(reg) ==
    {[install |-> FALSE, autorun |-> FALSE, ignore_paths |-> List(<<>>),
      enabled_linters |-> en, disabled_linters |-> None,
      config_dir |-> None, trusted |-> FALSE] :
        en \in UNION {NameArgs(reg, ns) : ns \in {x \in SUBSET Names(reg) :
                                                    x # {} /\ Cardinality(x) <= MaxTools}}}

InitPerFile ==
    /\ registry = PerFileLinters
    /\ platform \in {"posix", "win32"}
    /\ tree \in {fs \in SUBSET PerFileProject : fs # {} /\ Cardinality(fs) <= MaxFiles}
    /\ install = FALSE
    /\ autorun = FALSE
    /\ ignore_paths = List(<<>>)
    /\ enabled_linters = None
    /\ disabled_linters = None
    /\ config_dir = None
    /\ trusted = FALSE
    /\ RunnerInit

lint_per_file == runs = 0 /\ \E args \in PerFileArgs(registry) : run_linters(args)

\* one lint() call that runs per-file linters only
NextPerFile ==
    \/ lint_per_file
    \/ loop_next
    \/ dispatch
    \/ task_finish
    \/ await_task
    \/ parse
    \/ stop

SpecPerFile == InitPerFile /\ [][NextPerFile]_vars

\* run_command ends the task when its timeout has passed
after_timeout_Cancelled(t) == [t EXCEPT !.late = TRUE, !.st = "raised"]

\* what run_command does of a task whose timeout has passed: nothing, the
\* code for it is a comment (# TODO: Deal with timeouts)
after_timeout(t) == [t EXCEPT !.late = TRUE]

\* the subprocess of a task has been running for as long as its timeout
expire ==
    /\ \E t \in InFlight :
          /\ ~t.late
          /\ tasks' = (tasks \ {t}) \cup {after_timeout(t)}
    /\ UNCHANGED <<registry, platform, tree, config_dir, trusted, should_stop, install, autorun,
                   ignore_paths, enabled_linters, disabled_linters,
                   previous_install_commands, messages, pc, todo, linter, idx,
                   run_tasks, awaiting, collected, output, result, runs, calls, hist>>

\* one lint() call, every subprocess of which exits sooner or later, some
\* after their timeout; the stop signal is never set
NextLive ==
    \/ lint_plain
    \/ loop_next
    \/ dispatch
    \/ run_done
    \/ task_finish
    \/ await_task
    \/ parse
    \/ expire

\* the event loop runs every coroutine that can go on, and every subprocess
\* exits
FairLive ==
    /\ WF_vars(loop_next)
    /\ WF_vars(dispatch)
    /\ WF_vars(run_done)
    /\ WF_vars(task_finish)
    /\ WF_vars(await_task)
    /\ WF_vars(parse)

SpecLive == Init /\ [][NextLive]_vars /\ FairLive

\* lint() with ignore_paths left None
NoneArgs(reg) == {[x EXCEPT !.ignore_paths = None] : x \in {y \in LintArgs(reg) : ~y.install}}

lint_none == runs = 0 /\ \E args \in NoneArgs(registry) : run_linters(args)

\* one lint() call without ignore_paths
NextNone == lint_none \/ Execute

SpecNone == Init /\ [][NextNone]_vars

\* one lint() call that installs the linters it runs; the stop signal is
\* never set
NextOrder ==
    \/ lint_install
    \/ Install
    \/ loop_next
    \/ dispatch
    \/ run_done
    \/ task_finish
    \/ await_task
    \/ parse

SpecOrder == Init /\ [][NextOrder]_vars

\* one lint() call that installs nothing
NextPlain == lint_plain \/ Execute

SpecPlain == Init /\ [][NextPlain]_vars

\* one lint() call with or without a config directory
NextConfigDir == lint_config_dir \/ Execute

SpecConfigDir == Init /\ [][NextConfigDir]_vars

\* one lint() call in trusted mode
NextTrusted == lint_trusted \/ Install \/ Execute

SpecTrusted == Init /\ [][NextTrusted]_vars

\* one lint() call that installs the linters it runs
NextInstall == lint_install \/ Install \/ Execute

SpecInstall == Init /\ [][NextInstall]_vars

\* a LinterRunner whose lint() is called again
NextRerun == lint_install \/ lint_again \/ Install \/ Execute

SpecRerun == Init /\ [][NextRerun]_vars

\* Scenario C: a registry in which two linters list one install command.
\* It is LINTERS with the second install command of gometalinter.v2 replaced
\* by the second install command of gometalinter, which is also the help
\* command of gometalinter.
ScenarioC ==
    [i \in DOMAIN LINTERS |->
        IF LINTERS[i].name = "gometalinter.v2"
        THEN [LINTERS[i] EXCEPT !.install[2] = Config(LINTERS, "gometalinter").install[2]]
        ELSE LINTERS[i]]

InitScenarioC ==
    /\ registry = ScenarioC
    /\ platform = "posix"
    /\ tree = RunTree
    /\ install = FALSE
    /\ autorun = FALSE
    /\ ignore_paths = List(<<>>)
    /\ enabled_linters = None
    /\ disabled_linters = None
    /\ config_dir = None
    /\ trusted = FALSE
    /\ RunnerInit

SpecScenarioC == InitScenarioC /\ [][NextInstall]_vars

----------------------------------------------------------------------------
(* Properties of the run *)

\* run_linters has returned
HasReturned == pc = "idle" /\ result.kind = "returned"

\* the diagnostic is filtered by the ignore rules of the run
Ignored(f) == should_ignore_path(f.path, ignore_paths.items)

\* the entries the parse of linter l contributed to the messages of the run
Contributed(l) ==
    {Prefixed(l, p[2]) : p \in {q \in hist.parsed : q[1] = l /\ ~Ignored(q[2])}}

\* C4: if the install or the execution of a selected linter raises, the run
\* still returns, it has started every selected linter unless it was stopped,
\* the returned set holds every diagnostic that was parsed and not ignored,
\* and none of the linter that failed.
C4_FaultIsolation ==
    (pc = "idle" /\ runs > 0 /\ hist.failed # {}) =>
        /\ result.kind = "returned"
        /\ ~hist.stopped => Range(hist.order) = hist.selected
        /\ \A l \in hist.selected : Contributed(l) \subseteq result.messages
        /\ \A l \in hist.failed : \A m \in result.messages : m.text[1] # l

\* C4 witness: the first of two linters failed, the second was run and its
\* diagnostics are in the returned set
C4_Witness ==
    /\ HasReturned /\ ~hist.stopped
    /\ Len(hist.order) = 2
    /\ hist.order[1] \in hist.failed
    /\ hist.order[2] \notin hist.failed
    /\ Contributed(hist.order[2]) # {}
    /\ Contributed(hist.order[2]) \subseteq result.messages

\* C5: every subprocess in flight was launched for the linter the loop is
\* processing, in the run in progress.
C5_ToolsNeverOverlap ==
    \A t \in InFlight : t.linter = linter /\ t.run = runs

\* C6: if the stop signal is set when the first of several selected linters
\* is complete and the loop is at its head, no other linter is started, no
\* command of another linter reaches run_command, and the run returns
\* exactly what the first linter contributed.
C6_StopAfterFirst ==
    (hist.stop_head = 1 /\ Cardinality(hist.selected) > 1) =>
        /\ Len(hist.order) = 1
        /\ \A i \in DOMAIN calls : calls[i].linter \in {"-", hist.order[1]}
        /\ \A t \in tasks : t.run = runs => t.linter = hist.order[1]
        /\ pc \in {"loop", "idle"}
        /\ pc = "idle" => result = Returned(Contributed(hist.order[1]))

\* C6 witness: two linters selected, the signal set after the first, and the
\* run returned the diagnostics of the first
C6_Witness ==
    /\ HasReturned /\ hist.stopped
    /\ hist.stop_head = 1
    /\ Cardinality(hist.selected) = 2
    /\ result.messages # {}
    /\ result.messages = Contributed(hist.order[1])

\* the entries of msgs that report the diagnostic f
EntriesFor(f, msgs) ==
    {m \in msgs : m.path = f.path /\ m.line = f.line /\ m.text[2] = f.text}

\* the linters whose parse returned the diagnostic f
Producers(f) == {l \in hist.selected : <<l, f>> \in hist.parsed}

\* the diagnostic f was produced more than once in the run
ProducedTwice(f) ==
    \/ \E l \in hist.selected : <<l, f>> \in hist.twice
    \/ Cardinality(Producers(f)) > 1

\* C7 as stated: a diagnostic produced twice in one run, by one linter or
\* by two, and not ignored, has exactly one entry in the returned set.
C7_OneEntryPerFinding ==
    HasReturned =>
        \A f \in Findings :
            (ProducedTwice(f) /\ ~Ignored(f)) =>
                Cardinality(EntriesFor(f, result.messages)) = 1

\* C7 amended: a diagnostic produced twice in one run and not ignored has
\* exactly one entry in the returned set for each linter that produced it.
C7_OneEntryPerLinter ==
    HasReturned =>
        \A f \in Findings :
            (ProducedTwice(f) /\ ~Ignored(f)) =>
                /\ Cardinality(EntriesFor(f, result.messages)) = Cardinality(Producers(f))
                /\ \A l \in Producers(f) : Prefixed(l, f) \in result.messages

\* C7 witness: one diagnostic returned twice by the parse of one linter and
\* returned by the parse of another linter too
C7_Witness ==
    /\ HasReturned
    /\ \E f \in Findings :
          /\ ~Ignored(f)
          /\ \E l \in hist.selected : <<l, f>> \in hist.twice
          /\ Cardinality(Producers(f)) = 2
          /\ Cardinality(EntriesFor(f, result.messages)) = 2

\* C8: in every state of a run and in the returned set, no diagnostic has a
\* path that should_ignore_path accepts under the ignore rules of the run.
C8_NoIgnoredPath ==
    \A m \in messages \cup result.messages :
        ~should_ignore_path(m.path, ignore_paths.items)

\* C8 witness: a parse returned a diagnostic of an ignored path and one of
\* another path, and the run returned the second
C8_Witness ==
    /\ HasReturned
    /\ \E p \in hist.parsed : Ignored(p[2])
    /\ \E p \in hist.parsed : ~Ignored(p[2]) /\ Prefixed(p[1], p[2]) \in result.messages

\* the install commands two of the selected linters list
SharedInstall ==
    {c \in UNION {Range(Config(registry, l).install) : l \in hist.selected} :
        Cardinality({l \in hist.selected : c \in Range(Config(registry, l).install)}) > 1}

\* the calls of run_command in this run with the command line c, in a role
Received(c, roles) ==
    {i \in DOMAIN calls : calls[i].argv = c /\ calls[i].file = <<>> /\ calls[i].role \in roles}

C10_LedgerFreshPerRun ==
    runs > 0 => hist.ledger0 = <<>>

\* the command the claim C13 expects for a linter: the plain run command if
\* its marker files are in the project root; otherwise the config-aware
\* command with the directory given by the caller if that holds the marker
\* files, and with the bundled directory if not
ExpectedCommand(config) ==
    IF dotfiles_exist(config, tree) /\ config.run # <<>> THEN Plain(config.run)
    ELSE Format(IF config.rundefault # <<>> THEN config.rundefault ELSE config.run,
                IF config_dir.kind = "dir" /\ dotfiles_exist(config, config_dir.files)
                THEN config_dir.path ELSE BundledConfig)

\* C13: every run command dispatched, of a whole-project linter or of a
\* per-file linter, is the command that the marker files in the project
\* root and in the config directory of the caller determine.
C13_CommandResolution ==
    \A i \in DOMAIN calls :
        calls[i].role = "run" =>
            LET expected == ExpectedCommand(Config(registry, calls[i].linter))
            IN  calls[i].argv = expected.argv /\ calls[i].config_dir = expected.config_dir

\* C15: in trusted mode (trusted, and install or autorun) every command of
\* TRUSTED_INSTALL is passed to run_command, in list order, before the
\* selection of the linters and before any command of a linter.
C15_TrustedFirst ==
    (runs > 0 /\ trusted /\ (install \/ autorun)) =>
        \A k \in DOMAIN TRUSTED_INSTALL :
            /\ Len(calls) >= 1 + k
            /\ calls[1 + k].role = "trusted"
            /\ calls[1 + k].argv = TRUSTED_INSTALL[k]

\* run_linters is past the install and the execution of the linter l
Past(l) ==
    /\ \E i \in DOMAIN hist.order : hist.order[i] = l
    /\ l # linter \/ pc \in {"parse", "loop", "idle"}

\* the linter has a run command to dispatch: it runs on the whole project,
\* or run_per_file finds a file for it
HasRunCommand(l) ==
    LET config == Config(registry, l)
        per_file == run_per_file_args(ignore_paths, config_dir)
    IN  config.run_per_file =>
            RunFiles(config, tree, per_file.ignore_paths, per_file.path, 1) # {<<>>}

\* C16: whenever an install command of a linter was executed, whatever its
\* end (a return code other than zero, an exception at spawn or while its
\* output is collected), the run command of the linter is dispatched after it.
C16_RunAfterInstall ==
    \A i \in DOMAIN calls :
        (/\ calls[i].role = "install"
         /\ Past(calls[i].linter)
         /\ HasRunCommand(calls[i].linter))
        => \E j \in DOMAIN calls :
              j > i /\ calls[j].role = "run" /\ calls[j].linter = calls[i].linter

\* C17: a linter whose parse (or the prefixing and filtering of its result)
\* raised has no diagnostic in the messages of the run, the diagnostics of
\* the other linters are all there, and the loop goes on: a run that was
\* not stopped returns after it has started every selected linter.
C17_ParseFailure ==
    hist.unparsed # {} =>
        /\ \A l \in hist.unparsed : \A m \in messages : m.text[1] # l
        /\ \A l \in hist.selected : Contributed(l) \subseteq messages
        /\ pc = "idle" => /\ result = Returned(messages)
                          /\ ~hist.stopped => Range(hist.order) = hist.selected

\* C17 witness: the first linter contributed diagnostics, the parse of the
\* second raised, and the run returned the diagnostics of the first
C17_Witness ==
    /\ HasReturned /\ ~hist.stopped
    /\ Len(hist.order) = 2
    /\ hist.order[2] \in hist.unparsed
    /\ Contributed(hist.order[1]) # {}
    /\ result.messages = Contributed(hist.order[1])

\* the list of the individual names an argument names
Individually(arg) ==
    IF Named(registry, arg) = {} THEN None
    ELSE List(ListOf(registry, Named(registry, arg), 1))

\* C18: with enabled_linters and disabled_linters given as comma-separated
\* strings, bare or as one-element lists, linters_to_run returns the set it
\* returns for the lists of the individual names.
C18_CommaSeparatedForm ==
    Selected =>
        todo = linters_to_run(registry, tree, autorun, ignore_paths,
                              Individually(enabled_linters),
                              Individually(disabled_linters))

\* C19: if the stop signal is set while a linter is executing, no step of
\* that linter is given up: unless the linter itself raised, none of its
\* subprocesses is left running when the run returns; the run returns at
\* the next check, before any other linter is started, and the returned set
\* holds every diagnostic of that linter that was parsed and not ignored.
C19_StopAtToolBoundary ==
    LET l == hist.stop_during
    IN  l # "-" =>
            /\ hist.order[Len(hist.order)] = l
            /\ pc # "idle" => linter = l
            /\ pc = "idle" =>
                  /\ result.kind = "returned"
                  /\ todo # {} => hist.stopped
                  /\ Contributed(l) \subseteq result.messages
                  /\ l \notin hist.failed => \A t \in InFlight : t.linter # l

\* C19 witness: the signal was set while a per-file linter was executing,
\* its commands were run and its diagnostics are in the returned set, and
\* the run returned before the other selected linter was started
C19_Witness ==
    /\ HasReturned /\ hist.stopped /\ todo # {}
    /\ hist.stop_during # "-"
    /\ Config(registry, hist.stop_during).run_per_file
    /\ \E i \in DOMAIN calls : /\ calls[i].linter = hist.stop_during
                                /\ calls[i].role = "run" /\ calls[i].run = runs
    /\ Contributed(hist.stop_during) # {}

\* the place of a command in the install list of linter l; 0 if it is not there
InstallIndex(l, argv) ==
    LET cmds == Config(registry, l).install
    IN  IF \E k \in DOMAIN cmds : cmds[k] = argv
        THEN CHOOSE k \in DOMAIN cmds : cmds[k] = argv
        ELSE 0

\* C20: install_linter takes the install commands of a linter in list
\* order; a command is in the ledger before the probe for it is run, the
\* probe is run before the command, and the command is executed only after
\* a probe that did not exit zero; after a probe that exited zero, no
\* install command of that linter is executed or recorded, and no other
\* probe for it is run.
C20_InstallOrder ==
    /\ pc \in {"probe", "do_install"} =>
          /\ Config(registry, linter).install[idx] \in Range(previous_install_commands)
          /\ hist.recorded[Len(hist.recorded)] = linter
    /\ \A i \in DOMAIN calls :
          (calls[i].role = "install" /\ calls[i].run = runs) =>
              /\ calls[i].argv \in Range(previous_install_commands)
              /\ InstallIndex(calls[i].linter, calls[i].argv) > 0
              /\ i > 1 /\ calls[i - 1].role = "help"
              /\ calls[i - 1].linter = calls[i].linter
              /\ calls[i - 1].run = runs
              /\ \A z \in hist.zero : z.calls # i - 1
              /\ \A j \in DOMAIN calls :
                    (/\ j < i /\ calls[j].role = "install" /\ calls[j].run = runs
                     /\ calls[j].linter = calls[i].linter)
                    => InstallIndex(calls[j].linter, calls[j].argv)
                           < InstallIndex(calls[i].linter, calls[i].argv)
    /\ \A z \in hist.zero :
          /\ \A i \in DOMAIN calls :
                (i > z.calls /\ calls[i].run = runs /\ calls[i].linter = z.linter)
                => calls[i].role = "run"
          /\ \A k \in DOMAIN hist.recorded : k > z.recorded => hist.recorded[k] # z.linter

\* C20 witness: the probe for the first install command of a linter did not
\* exit zero and the command was executed; the second command was recorded
\* and its probe exited zero; the linter was run
C20_Witness ==
    \E z \in hist.zero :
        /\ Len(Config(registry, z.linter).install) = 2
        /\ z.calls > 2
        /\ calls[z.calls - 1].role = "install" /\ calls[z.calls - 1].linter = z.linter
        /\ Config(registry, z.linter).install[2] \in Range(previous_install_commands)
        /\ \E i \in DOMAIN calls : i > z.calls /\ calls[i].linter = z.linter
                                    /\ calls[i].role = "run"

\* the files a per-file linter is to be run on: the text files the scan of
\* the project finds that match a pattern of its language
Surviving(config) ==
    {p \in all_filenames_in_dir(tree, Cwd, ignore_paths.items) :
        /\ IsText(p)
        /\ \E i \in DOMAIN PATTERNS(config.language) :
              p \in fnmatch_filter({p}, PATTERNS(config.language)[i])}

\* the places in calls of the run commands of this run of linter l on file f
RunCalls(l, f) ==
    {i \in DOMAIN calls : /\ calls[i].role = "run" /\ calls[i].run = runs
                          /\ calls[i].linter = l /\ calls[i].file = f}

\* C22: once a per-file linter is dispatched, run_command has received one
\* command of it for every surviving file and none for another file; the
\* list run_per_file returns holds one pair for every surviving file, the
\* k-th pair made of the file of the k-th command and the output of the
\* k-th task.
C22_OneCommandPerFile ==
    \A l \in Range(hist.order) :
        (Config(registry, l).run_per_file /\ (l # linter \/ pc \in {"await", "parse", "loop", "idle"})) =>
            /\ \A f \in Surviving(Config(registry, l)) : Cardinality(RunCalls(l, f)) = 1
            /\ \A i \in DOMAIN calls :
                  (calls[i].role = "run" /\ calls[i].run = runs /\ calls[i].linter = l)
                  => calls[i].file \in Surviving(Config(registry, l))
            /\ (l = linter /\ pc = "parse" /\ l \notin hist.failed) =>
                  /\ output.files = run_tasks
                  /\ Len(output.files) = Cardinality(Surviving(Config(registry, l)))

\* the tasks of this run of linter l whose subprocess is running
Running(l) == {t \in InFlight : t.linter = l /\ t.run = runs}

\* C23: while run_per_file awaits, every task it has not awaited yet
\* exists already, running or finished: all the tasks are created before
\* the first is awaited, one for every surviving file at least, whatever
\* the concurrency key of the linter says.
C23_UnboundedFanOut ==
    pc = "await" =>
        /\ Len(run_tasks) >= Cardinality(Surviving(Config(registry, linter)))
        /\ \A k \in DOMAIN run_tasks :
              k >= awaiting => \E t \in tasks : /\ t.linter = linter /\ t.run = runs
                                                /\ t.k = k /\ t.file = run_tasks[k]

\* C23 witness: proselint, whose concurrency key is 1, has as many
\* subprocesses running at once as the project has files for it, and more
\* than one
C23_Witness ==
    /\ pc = "await" /\ linter = "proselint"
    /\ Config(registry, linter).concurrency = 1
    /\ Cardinality(Running(linter)) = Cardinality(Surviving(Config(registry, linter)))
    /\ Cardinality(Running(linter)) = MaxFiles

\* the subprocess of task t stops running in this step
Ends(t) ==
    \A u \in InFlight' : ~(u.linter = t.linter /\ u.run = t.run /\ u.k = t.k)

\* every selected linter was started once
EachOnce ==
    /\ Range(hist.order) = hist.selected
    /\ Len(hist.order) = Cardinality(hist.selected)

\* C24: a subprocess stops running only in a step in which it exits, also
\* after its timeout has passed; and if every subprocess exits and the stop
\* signal is never set, a run that has started returns, every selected
\* linter started exactly once.
C24_NoTimeout ==
    /\ [][(\E t \in InFlight : Ends(t)) => (run_done \/ task_finish)]_vars
    /\ (pc = "loop") ~> (HasReturned /\ ~hist.stopped /\ EachOnce)

\* C24 witness: the run returned after a subprocess of it had been running
\* for longer than its timeout
C24_Witness ==
    /\ HasReturned /\ EachOnce /\ hist.selected # {}
    /\ \E t \in tasks : t.late /\ t.run = runs

\* the files this run of the per-file linter l was run on
RunOn(l) ==
    {calls[i].file : i \in {j \in DOMAIN calls : /\ calls[j].role = "run"
                                                  /\ calls[j].run = runs
                                                  /\ calls[j].linter = l}}

\* C25: the files a per-file linter is run on are files under the working
\* directory, and they are the text files the scan of the working
\* directory finds that match a pattern of its language, whether or not
\* lint() was given a config_dir.
C25_FilesOfTheProject ==
    \A l \in Range(hist.order) :
        (Config(registry, l).run_per_file /\ (l # linter \/ pc \in {"await", "parse", "loop", "idle"})) =>
            /\ \A f \in RunOn(l) : StartsWith(f, Cwd \o <<"/">>)
            /\ RunOn(l) = Surviving(Config(registry, l))

\* C26: a lint() call without ignore_paths does not raise, and the set it
\* returns holds every diagnostic a parser returned, as it does for the
\* ignore list [].
C26_NoneIsEmptyList ==
    ignore_paths.kind = "None" =>
        /\ result # Raised
        /\ HasReturned => \A q \in hist.parsed : Prefixed(q[1], q[2]) \in result.messages

\* C27: if a task of a per-file linter raised, run_linters has no output of
\* that linter, whatever its other tasks returned; its parser is not
\* invoked, and no diagnostic of it is in the messages of the run.
C27_AllOrNothing ==
    \A l \in hist.failed :
        Config(registry, l).run_per_file =>
            /\ (l = linter /\ pc = "parse") => output = NoOutput
            /\ l \notin hist.unparsed
            /\ \A q \in hist.parsed : q[1] # l
            /\ \A m \in messages : m.text[1] # l
            /\ HasReturned => \A m \in result.messages : m.text[1] # l

\* C27 witness: the first task of a per-file linter returned and was
\* awaited, a later one raised, and run_linters goes on without output
C27_Witness ==
    /\ pc = "parse" /\ linter \in hist.failed
    /\ Config(registry, linter).run_per_file
    /\ collected # <<>>
    /\ output = NoOutput

====
